---------------------------- MODULE Spec2Model ----------------------------
(***************************************************************************)
(* Model of the browser tracking script (tracker.js): the cookie-backed    *)
(* identity store, the event queue, the flush controller and the public    *)
(* control surface window.WebAnalytics.                                    *)
(*                                                                         *)
(* Scheduling: the browser runs every listener, timer callback and public  *)
(* call as one non-preemptible turn of the event loop, so each of them is  *)
(* one action.  Event payloads (element descriptors, coordinates, custom   *)
(* data) are not modelled: an event is its type, its capture ordinal and   *)
(* the ids of the owning session, its timestamp, and the numeric data the  *)
(* tracker itself computes (scroll depth, time on page, engagement time).  *)
(* Custom data handed to track/identify is taken to be JSON data, so that  *)
(* JSON.stringify of a payload is total.                                   *)
(*                                                                         *)
(* The last part models the dashboard: its authenticated queries          *)
(* (authFetch and refreshAccessToken), every await being a point where     *)
(* other calls run, and the polling of the live events page, one poll      *)
(* running to its end before the next starts.                              *)
(***************************************************************************)
EXTENDS Integers, Sequences, FiniteSets, TLC

VARIABLES
    \* ---- browser environment
    cookie,         \* the wa_session cookie held by the browser
    now,            \* Date.now()
    readyState,     \* document.readyState: "loading" or "interactive"
    hasBeacon,      \* navigator.sendBeacon is defined
    hidden,         \* document.hidden
    attrSiteId,     \* data-site-id attribute of the script tag (NULL if none)
    scrollTop,      \* window.pageYOffset
    transportOk,    \* sendBeacon accepts a batch / the keep-alive request succeeds
    \* ---- the script's state in the current page context
    script,         \* "none": not yet executed, "running", "crashed": threw at top level
    siteId,         \* CONFIG.siteId
    session,        \* const session = getOrCreateSession()
    endpoint,       \* CONFIG.endpoint
    debug,          \* CONFIG.debug
    eventQueue,     \* let eventQueue
    lastMouseSample,      \* let lastMouseSample
    scrollTimeout,        \* the pending timers trackScroll set, by the delay each has
                          \* left, in the order set: the last is the one the handle names
    lastScrollDepth,      \* let lastScrollDepth
    engagementTime,       \* let engagementTime
    lastEngagementCheck,  \* let lastEngagementCheck
    waInitialized,  \* window._waInitialized
    dclRegistered,  \* the DOMContentLoaded callback is registered and has not run
    initRuns,       \* how many times init() ran past its guard: the number of flush
                    \* timers, beforeunload handlers and flush-on-hidden handlers
    ops,            \* operations other than clicks run in this page context
    \* ---- the transport and the history
    sent,           \* payloads handed to sendBeacon/fetch, in hand-off order
    accepted,       \* history: the events accepted into the queue, in capture order
    lastOp,         \* history: the operation that ran last
    pre,            \* history: what that operation found (snapshot taken as it started)
    loadTime,       \* history: the clock reading at which this page's script ran
    hiddenTime,     \* history: the time this page's document spent hidden since then
    sinceScroll,    \* history: timer time since the scroll listener last ran, up to
                    \* scrollDebounce
    onerror,        \* window.onerror: "none", "host" (the page's own handler) or "tracker"
    hostOnError,    \* history: the page put its own handler on window.onerror before
                    \* init ran
    lastVisitor,    \* history: the visitor id of the stored session that expired last
    \* ---- the dashboard client
    accessToken,    \* localStorage access_token (NoToken if none)
    refreshToken,   \* localStorage refresh_token (NoToken if none)
    issued,         \* token pairs the auth server has issued
    calls,          \* the authFetch calls: position, local token, history
    \* ---- the live events page of the dashboard
    backend,        \* the events the backend holds, by session: their timestamps
    events,         \* useState events: the displayed list
    seenEventsRef,  \* seenEventsRef.current: the event ids already taken
    isPaused        \* useState isPaused

authVars == << accessToken, refreshToken, issued, calls >>
feedVars == << backend, events, seenEventsRef, isPaused >>

\* what no tracker operation touches
others == << hostOnError, authVars, feedVars >>

vars == << cookie, now, readyState, hasBeacon, hidden, attrSiteId, scrollTop,
           transportOk, script, siteId, session, endpoint, debug, eventQueue,
           lastMouseSample, scrollTimeout, lastScrollDepth, engagementTime,
           lastEngagementCheck, waInitialized, dclRegistered, initRuns, ops,
           sent, accepted, lastOp, pre, loadTime, hiddenTime, sinceScroll, onerror,
           hostOnError, lastVisitor, authVars, feedVars >>

\* ---------------------------------------------------------------- bounds
MaxIds == 2         \* distinct values generateId may return
MaxTime == 2        \* clock readings
MaxLoads == 3       \* page-view counter values reached by reloading
MaxEvents == 11     \* events accepted in one page lifetime
MaxSends == 3       \* payloads handed to the transport in one page lifetime
MaxOps == 2         \* operations other than clicks in one page lifetime
MaxClock == 250     \* clock readings (ms) of the mouse sampling specification
MaxCalls == 2       \* authFetch calls in flight together
MaxTokens == 3      \* token pairs the auth server issues
MaxBackend == 11     \* events the backend holds for one session

\* ------------------------------------------------------- program constants
batchSize == 10     \* CONFIG.batchSize
mouseSampleRate == 100   \* CONFIG.mouseSampleRate, ms
scrollMargin == 10       \* trackScroll: scrollDepth > lastScrollDepth + 10
scrollDebounce == 150    \* trackScroll: setTimeout(.., 150), ms

\* ------------------------------------------------------------- JS values
NULL == "null"                       \* the value null where a string may stand
Truthy(s) == s \notin {NULL, ""}     \* !!s for s null or a string

Num(n) == [k |-> "num", v |-> n]
Str(i) == [k |-> "str", v |-> i]     \* the i-th opaque string
Bool(b) == [k |-> "bool", v |-> IF b THEN 1 ELSE 0]
Undef == [k |-> "undef", v |-> 0]
JNull == [k |-> "null", v |-> 0]
NaN == [k |-> "nan", v |-> 0]

\* faulty variant of Inc: the counter is left as read
IncSkip(x) == x

\* x++ on a property holding x: ToNumber(x) + 1
Inc(x) ==
    CASE x.k = "num" -> Num(x.v + 1)
      [] x.k = "null" -> Num(1)
      [] x.k = "bool" -> Num(x.v + 1)
      [] OTHER -> NaN

\* JSON.parse(JSON.stringify(x)) of one property value: NaN is written as null,
\* an undefined property is left out (and reads back undefined)
JsonOf(x) == IF x.k = "nan" THEN JNull ELSE x

\* Date.now() - x for a property holding x: t - ToNumber(x)
Minus(t, x) ==
    CASE x.k = "num" -> Num(t - x.v)
      [] x.k = "null" -> Num(t)
      [] x.k = "bool" -> Num(t - x.v)
      [] OTHER -> NaN

Fields == {"id", "visitorId", "startTime", "pageViews", "isNew", "lastActivity",
           "userId", "traits"}
EmptyObj == [f \in Fields |-> Undef]

\* parsed JSON values a cookie can hold: t is "null", "prim" (number, string,
\* boolean; truthy tells !!value), "array" or "object" (obj holds its properties)
JVal(t, truthy, obj) == [t |-> t, truthy |-> truthy, obj |-> obj]
NoValue == JVal("null", FALSE, EmptyObj)

Absent == [kind |-> "absent", val |-> NoValue]     \* no wa_session cookie
Garbage == [kind |-> "garbage", val |-> NoValue]   \* text that decodeURIComponent or JSON.parse rejects
Stored(v) == [kind |-> "json", val |-> v]

\* a session record as the tracker writes it
IsValidSession(c) ==
    /\ c.kind = "json"
    /\ c.val.t = "object"
    /\ c.val.obj.id.k = "str"
    /\ c.val.obj.visitorId.k = "str"
    /\ c.val.obj.pageViews.k = "num"
    /\ c.val.obj.startTime.k = "num"

\* values that are not a session record
CorruptValues ==
    { Garbage,
      Stored(NoValue),                         \* null
      Stored(JVal("prim", FALSE, EmptyObj)),   \* 0, false, ""
      Stored(JVal("prim", TRUE, EmptyObj)),    \* 5, true, "abc"
      Stored(JVal("array", TRUE, EmptyObj)),   \* []
      Stored(JVal("object", TRUE, EmptyObj)) } \* {}

\* ---------------------------------------------------------------- Cookie
\* Cookie.get: the parsed value, or null when there is no match or parsing throws
CookieGet(c) == IF c.kind = "json" THEN c.val ELSE NoValue

\* Cookie.set: JSON.stringify(value); an array is written without its named properties
CookieSet(s) ==
    Stored(JVal(s.t, TRUE,
                IF s.t = "array" THEN EmptyObj
                ELSE [f \in Fields |-> JsonOf(s.obj[f])]))

\* !session
Falsy(v) == v.t = "null" \/ (v.t = "prim" /\ ~v.truthy)

\* ---------------------------------------------------- getOrCreateSession
NoSession == JVal("null", FALSE, EmptyObj)

\* the outcome of getOrCreateSession against cookie c at time t, sid and vid being
\* what the two generateId calls return: threw, the session returned, the cookie left
getOrCreateSession(c, t, sid, vid) ==
    LET got == CookieGet(c)
        loaded ==
            IF Falsy(got)
            THEN JVal("object", TRUE,
                      [EmptyObj EXCEPT !.id = Str(sid), !.visitorId = Str(vid),
                                       !.startTime = Num(t), !.pageViews = Num(0),
                                       !.isNew = Bool(TRUE)])
            ELSE [got EXCEPT !.obj.isNew = Bool(FALSE)]
        counted == [loaded EXCEPT !.obj.pageViews = Inc(@), !.obj.lastActivity = Num(t)]
    IN  IF ~Falsy(got) /\ got.t = "prim"
        THEN \* strict mode: assigning a property of a primitive throws TypeError
             [threw |-> TRUE, session |-> NoSession, cookie |-> c]
        ELSE [threw |-> FALSE, session |-> counted, cookie |-> CookieSet(counted)]

\* ------------------------------------------------------------ the tracker
\* The part of the state the capture and flush routines read and write.
Tracker == [siteId |-> siteId, endpoint |-> endpoint, debug |-> debug,
            session |-> session, eventQueue |-> eventQueue,
            sent |-> sent, accepted |-> accepted, initRuns |-> initRuns,
            lastMouseSample |-> lastMouseSample, lastScrollDepth |-> lastScrollDepth,
            engagementTime |-> engagementTime,
            lastEngagementCheck |-> lastEngagementCheck, onerror |-> onerror]

\* the data argument of trackEvent, as far as the tracker computes it
NoData == [depth |-> Undef, timeOnPage |-> Undef, engagementTime |-> Undef,
           scrollDepth |-> Undef, hidden |-> Undef]

\* (n and tenant are history, not fields of the event: the capture ordinal and
\* CONFIG.siteId as the event was created)
NoEvent == [type |-> "null", n |-> 0, timestamp |-> 0, sessionId |-> Undef,
            visitorId |-> Undef, data |-> NoData, tenant |-> NULL]

\* faulty variant of createEvent: only null counts as no site id
createEventNullOnly(st, type, data) ==
    IF st.siteId = NULL THEN NoEvent
    ELSE [type |-> type, n |-> Len(st.accepted) + 1, timestamp |-> now,
          sessionId |-> st.session.obj.id, visitorId |-> st.session.obj.visitorId,
          data |-> data, tenant |-> st.siteId]

\* createEvent: null without a site id, else the event record
createEvent(st, type, data) ==
    IF ~Truthy(st.siteId) THEN NoEvent
    ELSE [type |-> type, n |-> Len(st.accepted) + 1, timestamp |-> now,
          sessionId |-> st.session.obj.id, visitorId |-> st.session.obj.visitorId,
          data |-> data, tenant |-> st.siteId]

\* faulty variant of Payload: the request is the fallback of a refused beacon
PayloadFallback(st) ==
    [events |-> st.eventQueue, site_id |-> st.siteId, to |-> st.endpoint,
     via |-> IF hasBeacon /\ transportOk THEN "beacon" ELSE "fetch",
     header |-> IF hasBeacon /\ transportOk THEN NULL ELSE st.siteId,
     ok |-> transportOk]

\* the payload flush builds, the endpoint and the transport it goes to (sendBeacon
\* when defined, else fetch with the X-Site-ID header), and what becomes of the
\* hand-off (sendBeacon returning false, the request promise rejecting): flush
\* reads neither
Payload(st) ==
    [events |-> st.eventQueue, site_id |-> st.siteId, to |-> st.endpoint,
     via |-> IF hasBeacon THEN "beacon" ELSE "fetch",
     header |-> IF hasBeacon THEN NULL ELSE st.siteId,
     ok |-> transportOk]

\* faulty variant of flush: the queue is not reset
flushKeepQueue(st) ==
    IF Len(st.eventQueue) = 0 \/ ~Truthy(st.siteId) THEN st
    ELSE [st EXCEPT !.sent = Append(@, Payload(st))]

\* faulty variant of flush: no early return
flushUnguarded(st) ==
    [st EXCEPT !.eventQueue = << >>, !.sent = Append(@, Payload(st))]

\* faulty variant of flush: a batch the transport refuses stays in the queue
flushRequeue(st) ==
    IF Len(st.eventQueue) = 0 \/ ~Truthy(st.siteId) THEN st
    ELSE [st EXCEPT !.eventQueue = IF transportOk THEN << >> ELSE @,
                    !.sent = Append(@, Payload(st))]

\* faulty variant of flush: the site id is not looked at
flushAnySite(st) ==
    IF Len(st.eventQueue) = 0 THEN st
    ELSE [st EXCEPT !.eventQueue = << >>, !.sent = Append(@, Payload(st))]

\* flush: nothing without events or site id; else detach the queue and hand the
\* payload to sendBeacon, or to fetch when there is no sendBeacon
flush(st) ==
    IF Len(st.eventQueue) = 0 \/ ~Truthy(st.siteId) THEN st
    ELSE [st EXCEPT !.eventQueue = << >>, !.sent = Append(@, Payload(st))]

\* faulty variant of trackEvent: > for >=
trackEventLate(st, type, data) ==
    LET event == createEvent(st, type, data)
        pushed == [st EXCEPT !.eventQueue = Append(@, event),
                             !.accepted = Append(@, event)]
    IN  IF event = NoEvent THEN st
        ELSE IF Len(pushed.eventQueue) > batchSize THEN flush(pushed) ELSE pushed

\* trackEvent: create, push, flush when the queue has reached batchSize
trackEvent(st, type, data) ==
    LET event == createEvent(st, type, data)
        pushed == [st EXCEPT !.eventQueue = Append(@, event),
                             !.accepted = Append(@, event)]
    IN  IF event = NoEvent THEN st
        ELSE IF Len(pushed.eventQueue) >= batchSize THEN flush(pushed) ELSE pushed

trackPageView(st) == trackEvent(st, "pageview", NoData)
trackClick(st) == trackEvent(st, "click", NoData)
\* trackVisibility, h being document.hidden
trackVisibility(st, h) ==
    trackEvent(st, "visibility", [NoData EXCEPT !.hidden = Bool(h)])

\* trackError: the error event (message, source, line, column, stack)
trackError(st) == trackEvent(st, "error", NoData)

\* faulty variant of trackMouseMove: the time of the sample is not kept
trackMouseMoveNoStamp(st, t) ==
    IF t - st.lastMouseSample < mouseSampleRate THEN st
    ELSE trackEvent(st, "mousemove", NoData)

\* trackMouseMove at clock reading t: dropped within mouseSampleRate of the last
\* sample, else the reading is kept and the event queued
trackMouseMove(st, t) ==
    IF t - st.lastMouseSample < mouseSampleRate THEN st
    ELSE trackEvent([st EXCEPT !.lastMouseSample = t], "mousemove", NoData)

\* the scrollable height of the document: scrollHeight - innerHeight
docHeight == 20

\* Math.round((scrollTop / docHeight) * 100), or 0 for a page that cannot scroll
scrollDepth(top, h) == IF h > 0 THEN (200 * top + h) \div (2 * h) ELSE 0

\* faulty variant of trackScrollSettled: any increase counts
trackScrollAnyIncrease(st, top) ==
    LET d == scrollDepth(top, docHeight)
    IN  IF d > st.lastScrollDepth
        THEN trackEvent([st EXCEPT !.lastScrollDepth = d], "scroll",
                        [NoData EXCEPT !.depth = Num(d)])
        ELSE st

\* faulty variant of trackScroll: the pending timer is not cleared
trackScrollNoClear(timers) == Append(timers, scrollDebounce)

\* trackScroll: clearTimeout(scrollTimeout) takes the timer the handle names out
\* of the pending ones, setTimeout(.., 150) puts a new one in
trackScroll(timers) ==
    Append(IF timers # << >> THEN SubSeq(timers, 1, Len(timers) - 1) ELSE timers,
           scrollDebounce)

\* the debounce callback of trackScroll, the page resting at scrollTop = top
trackScrollSettled(st, top) ==
    LET d == scrollDepth(top, docHeight)
    IN  IF d > st.lastScrollDepth + scrollMargin
        THEN trackEvent([st EXCEPT !.lastScrollDepth = d], "scroll",
                        [NoData EXCEPT !.depth = Num(d)])
        ELSE st

\* updateEngagement at clock reading t, hid being document.hidden (isEngaged is
\* never set to false)
updateEngagement(st, t, hid) ==
    [st EXCEPT !.engagementTime = IF ~hid THEN @ + (t - st.lastEngagementCheck) ELSE @,
               !.lastEngagementCheck = t]

\* init: nothing without a site id; else the page view, the listeners,
\* window.onerror = trackError, one more flush timer, one more beforeunload
\* handler, one more flush-on-hidden handler
init(st) ==
    IF ~Truthy(st.siteId) THEN st
    ELSE [trackPageView(st) EXCEPT !.initRuns = @ + 1, !.onerror = "tracker"]

\* the data of the page_exit event
ExitData(st) ==
    [NoData EXCEPT !.timeOnPage = Minus(now, st.session.obj.startTime),
                   !.engagementTime = Num(st.engagementTime),
                   !.scrollDepth = Num(st.lastScrollDepth)]

\* faulty variant of beforeunload: flush, then the page_exit event
beforeunloadFlushFirst(st) == trackEvent(flush(st), "page_exit", ExitData(st))

\* one beforeunload handler: the page_exit event, then flush
beforeunload(st) == flush(trackEvent(st, "page_exit", ExitData(st)))

\* one flush-on-hidden handler
flushOnHidden(st, h) == IF h THEN flush(st) ELSE st

\* the beforeunload signal: the n registered handlers, in registration order
RECURSIVE beforeunloadAll(_, _)
beforeunloadAll(st, n) == IF n = 0 THEN st ELSE beforeunloadAll(beforeunload(st), n - 1)

\* the n flush-on-hidden handlers, in registration order
RECURSIVE flushOnHiddenAll(_, _, _)
flushOnHiddenAll(st, h, n) ==
    IF n = 0 THEN st ELSE flushOnHiddenAll(flushOnHidden(st, h), h, n - 1)

\* faulty variant of visibilitychange: the flush handlers run first
visibilitychangeFlushFirst(st, h) ==
    trackVisibility(flushOnHiddenAll(st, h, st.initRuns), h)

\* the visibilitychange signal: trackVisibility (registered first, and once,
\* addEventListener ignoring the repeated registration of the same function),
\* then the flush-on-hidden handlers
visibilitychange(st, h) == flushOnHiddenAll(trackVisibility(st, h), h, st.initRuns)

\* faulty variant of identify: the session is not written to the cookie
identifyNoPersist(st, u, tr) ==
    LET s1 == [st.session EXCEPT !.obj.userId = u, !.obj.traits = tr]
    IN  [st |-> trackEvent([st EXCEPT !.session = s1], "identify", NoData),
         cookie |-> cookie]

\* identify(userId, traits): the tracker state and the cookie left
identify(st, u, tr) ==
    LET s1 == [st.session EXCEPT !.obj.userId = u, !.obj.traits = tr]
    IN  [st |-> trackEvent([st EXCEPT !.session = s1], "identify", NoData),
         cookie |-> CookieSet(s1)]

\* --------------------------------------------------------------- actions
SiteIdValues == {NULL, "", "T1", "T2"}     \* arguments of setSiteId
AttrValues == {NULL, "T1"}                 \* data-site-id: none, or a site id
UserIds == {1}                             \* arguments of identify: the user id
TraitValues == {Undef, Str(1)}             \* arguments of identify: no traits, or a bag
DefaultEndpoint == "E0"                    \* CONFIG.endpoint as the script sets it
Endpoints == {"E0", "E1"}                  \* arguments of setEndpoint
ClockSteps == {-50, 50}                    \* changes of Date.now() between signals, ms
ScrollTops == {0, 2, 3, 5, 6, 10, 20}      \* positions the page can rest at

\* the bounds of the model, as a guard on the state an operation leaves
Within(st) ==
    /\ Len(st.accepted) <= MaxEvents
    /\ Len(st.sent) <= MaxSends

NoArg == [userId |-> Undef, traits |-> Undef]

\* what the operation that runs next finds
Snapshot ==
    [cookie |-> cookie, qlen |-> Len(eventQueue), nsent |-> Len(sent),
     nacc |-> Len(accepted), siteId |-> siteId, initRuns |-> initRuns,
     op |-> lastOp, opSent |-> Len(sent) - pre.nsent,
     opWork |-> pre.qlen > 0 /\ Truthy(pre.siteId), arg |-> NoArg,
     eng |-> engagementTime, timers |-> scrollTimeout, onerror |-> onerror]

Record(op) == lastOp' = op /\ pre' = Snapshot

\* one more operation, within the bound
Op == ops < MaxOps /\ ops' = ops + 1

\* the tracker state st written back
Apply(st) ==
    /\ siteId' = st.siteId
    /\ endpoint' = st.endpoint
    /\ debug' = st.debug
    /\ session' = st.session
    /\ eventQueue' = st.eventQueue
    /\ sent' = st.sent
    /\ accepted' = st.accepted
    /\ initRuns' = st.initRuns
    /\ lastMouseSample' = st.lastMouseSample
    /\ lastScrollDepth' = st.lastScrollDepth
    /\ engagementTime' = st.engagementTime
    /\ lastEngagementCheck' = st.lastEngagementCheck
    /\ onerror' = st.onerror

\* what a tracker operation leaves alone besides the browser environment
aside == << scrollTop, scrollTimeout, transportOk, loadTime, hiddenTime, sinceScroll,
           lastVisitor, others >>

\* The script runs (the whole IIFE): configuration from the script tag (no
\* data-endpoint, no data-debug), the session, the engagement clock, the public
\* surface, and the start-up block.  sid and vid are what the two generateId
\* calls return when the session is new.
ScriptLoad(sid, vid) ==
    /\ script = "none"
    /\   LET r == getOrCreateSession(cookie, now, sid, vid)
             st0 == [Tracker EXCEPT !.siteId = IF Truthy(attrSiteId) THEN attrSiteId ELSE NULL,
                                    !.session = r.session,
                                    !.lastEngagementCheck = now]
             starts == readyState # "loading" /\ Truthy(st0.siteId)
             st1 == IF starts THEN init(st0) ELSE st0
         IN  IF r.threw
             THEN /\ script' = "crashed"
                  /\ UNCHANGED << cookie, siteId, endpoint, debug, session, eventQueue,
                                  sent, accepted, initRuns, lastMouseSample,
                                  lastScrollDepth, engagementTime, lastEngagementCheck,
                                  onerror, waInitialized, dclRegistered >>
             ELSE /\ script' = "running"
                  /\ cookie' = r.cookie
                  /\ Apply(st1)
                  /\ waInitialized' = (waInitialized \/ starts)
                  /\ dclRegistered' = (readyState = "loading")
    /\ loadTime' = now
    /\ hiddenTime' = 0
    /\ UNCHANGED ops
    /\ Record("load")
    /\ UNCHANGED << now, readyState, hasBeacon, hidden, attrSiteId, scrollTop,
                    scrollTimeout, sinceScroll, transportOk, lastVisitor, others >>

\* The document finishes parsing: the DOMContentLoaded callback, when registered.
DOMContentLoaded ==
    /\ readyState = "loading"
    /\ readyState' = "interactive"
    /\ dclRegistered' = FALSE
    /\ LET starts == dclRegistered /\ Truthy(siteId)
       IN  /\ Apply(IF starts THEN init(Tracker) ELSE Tracker)
           /\ waInitialized' = (waInitialized \/ starts)
    /\ UNCHANGED ops
    /\ Record("dcl")
    /\ UNCHANGED << cookie, now, hasBeacon, hidden, attrSiteId, script, aside >>

\* WebAnalytics.setSiteId(v)
SetSiteId(v) ==
    /\ script = "running"
    /\ LET st0 == [Tracker EXCEPT !.siteId = v]
           starts == Truthy(v) /\ ~waInitialized
           st1 == IF starts THEN init(st0) ELSE st0
       IN  /\ Within(st1)
           /\ Apply(st1)
           /\ waInitialized' = (waInitialized \/ starts)
    /\ Op
    /\ Record("setSiteId")
    /\ UNCHANGED << cookie, now, readyState, hasBeacon, hidden, attrSiteId, script,
                    dclRegistered, aside >>

\* WebAnalytics.setEndpoint(url)
SetEndpoint(url) ==
    /\ script = "running"
    /\ Apply([Tracker EXCEPT !.endpoint = url])
    /\ Op
    /\ Record("setEndpoint")
    /\ UNCHANGED << cookie, now, readyState, hasBeacon, hidden, attrSiteId, script,
                    waInitialized, dclRegistered, aside >>

\* WebAnalytics.setDebug(enabled)
SetDebug(enabled) ==
    /\ script = "running"
    /\ Apply([Tracker EXCEPT !.debug = enabled])
    /\ Op
    /\ Record("setDebug")
    /\ UNCHANGED << cookie, now, readyState, hasBeacon, hidden, attrSiteId, script,
                    waInitialized, dclRegistered, aside >>

\* WebAnalytics.track(name, data)
Track ==
    /\ script = "running"
    /\ LET st1 == trackEvent(Tracker, "custom:x", NoData)
       IN  Within(st1) /\ Apply(st1)
    /\ Op
    /\ Record("track")
    /\ UNCHANGED << cookie, now, readyState, hasBeacon, hidden, attrSiteId, script,
                    waInitialized, dclRegistered, aside >>

\* WebAnalytics.identify(userId, traits)
Identify(u, tr) ==
    /\ script = "running"
    /\ LET r == identify(Tracker, Str(u), tr)
       IN  /\ Within(r.st)
           /\ Apply(r.st)
           /\ cookie' = r.cookie
    /\ Op
    /\ lastOp' = "identify"
    /\ pre' = [Snapshot EXCEPT !.arg = [userId |-> Str(u), traits |-> tr]]
    /\ UNCHANGED << now, readyState, hasBeacon, hidden, attrSiteId, script,
                    waInitialized, dclRegistered, aside >>

\* WebAnalytics.flush()
Flush ==
    /\ script = "running"
    /\ LET st1 == flush(Tracker)
       IN  Within(st1) /\ Apply(st1)
    /\ Op
    /\ Record("flush")
    /\ UNCHANGED << cookie, now, readyState, hasBeacon, hidden, attrSiteId, script,
                    waInitialized, dclRegistered, aside >>

\* a flush timer set by init fires
TimerFlush ==
    /\ initRuns >= 1
    /\ LET st1 == flush(Tracker)
       IN  Within(st1) /\ Apply(st1)
    /\ Op
    /\ Record("timer")
    /\ UNCHANGED << cookie, now, readyState, hasBeacon, hidden, attrSiteId, script,
                    waInitialized, dclRegistered, aside >>

\* a click reaches the click listener
Click ==
    /\ initRuns >= 1
    /\ LET st1 == trackClick(Tracker)
       IN  Within(st1) /\ Apply(st1)
    /\ UNCHANGED ops
    /\ Record("click")
    /\ UNCHANGED << cookie, now, readyState, hasBeacon, hidden, attrSiteId, script,
                    waInitialized, dclRegistered, aside >>

\* a mouse move reaches the mousemove listener (trackMouseMove, registered once
\* however often init runs: addEventListener ignores the same function)
MouseMove ==
    /\ initRuns >= 1
    /\ LET st1 == trackMouseMove(Tracker, now)
       IN  Within(st1) /\ Apply(st1)
    /\ UNCHANGED ops
    /\ Record("mousemove")
    /\ UNCHANGED << cookie, now, readyState, hasBeacon, hidden, attrSiteId, script,
                    waInitialized, dclRegistered, aside >>

\* the page scrolls to position p: trackScroll, once init has attached it
\* (registered once however often init runs)
Scroll(p) ==
    /\ script = "running"
    /\ p # scrollTop
    /\ scrollTop' = p
    /\ scrollTimeout' = IF initRuns >= 1 THEN trackScroll(scrollTimeout) ELSE scrollTimeout
    /\ sinceScroll' = IF initRuns >= 1 THEN 0 ELSE sinceScroll
    /\ UNCHANGED ops
    /\ Record("scroll")
    /\ UNCHANGED << cookie, now, readyState, hasBeacon, hidden, attrSiteId, script,
                    siteId, endpoint, debug, session, eventQueue, lastMouseSample,
                    lastScrollDepth, engagementTime, lastEngagementCheck,
                    waInitialized, dclRegistered, initRuns, sent, accepted, onerror,
                    transportOk, loadTime, hiddenTime, lastVisitor, others >>

\* a timer trackScroll set fires, the oldest first: the depth evaluation
ScrollSettled ==
    /\ scrollTimeout # << >>
    /\ scrollTimeout' = Tail(scrollTimeout)
    /\ LET st1 == trackScrollSettled(Tracker, scrollTop)
       IN  Within(st1) /\ Apply(st1)
    /\ UNCHANGED ops
    /\ Record("scrollSettled")
    /\ UNCHANGED << cookie, now, readyState, hasBeacon, hidden, attrSiteId, script,
                    waInitialized, dclRegistered, scrollTop, transportOk, loadTime,
                    hiddenTime, sinceScroll, lastVisitor, others >>

\* the oldest pending timer of trackScroll has run its delay
TimerDue == scrollTimeout # << >> /\ Head(scrollTimeout) = 0

\* d ms of timer time pass, no pending timer running past its delay
Elapse(d) ==
    /\ script = "running"
    /\ \A i \in 1..Len(scrollTimeout) : d <= scrollTimeout[i]
    /\ scrollTimeout' = [i \in 1..Len(scrollTimeout) |-> scrollTimeout[i] - d]
    /\ sinceScroll' = IF sinceScroll + d > scrollDebounce THEN scrollDebounce
                      ELSE sinceScroll + d
    /\ sinceScroll' # sinceScroll
    /\ UNCHANGED ops
    /\ Record("elapse")
    /\ UNCHANGED << cookie, now, readyState, hasBeacon, hidden, attrSiteId, script,
                    siteId, endpoint, debug, session, eventQueue, lastMouseSample,
                    lastScrollDepth, engagementTime, lastEngagementCheck,
                    waInitialized, dclRegistered, initRuns, sent, accepted, onerror,
                    scrollTop, transportOk, loadTime, hiddenTime, lastVisitor, others >>

\* the engagement timer set at script load fires
UpdateEngagement ==
    /\ script = "running"
    /\ Apply(updateEngagement(Tracker, now, hidden))
    /\ UNCHANGED ops
    /\ Record("engagement")
    /\ UNCHANGED << cookie, now, readyState, hasBeacon, hidden, attrSiteId, script,
                    waInitialized, dclRegistered, aside >>

\* the page becomes hidden or visible: the visibilitychange listeners, once
\* init has attached them
VisibilityChange ==
    /\ hidden' = ~hidden
    /\ LET st1 == IF initRuns >= 1 THEN visibilitychange(Tracker, ~hidden) ELSE Tracker
       IN  Within(st1) /\ Apply(st1)
    /\ Op
    /\ Record("visibilitychange")
    /\ UNCHANGED << cookie, now, readyState, hasBeacon, attrSiteId, script,
                    waInitialized, dclRegistered, aside >>

\* the beforeunload signal
Unload ==
    /\ initRuns >= 1
    /\ LET st1 == beforeunloadAll(Tracker, initRuns)
       IN  Within(st1) /\ Apply(st1)
    /\ Op
    /\ Record("beforeunload")
    /\ UNCHANGED << cookie, now, readyState, hasBeacon, hidden, attrSiteId, script,
                    waInitialized, dclRegistered, aside >>

\* the host page puts its own handler on window.onerror
HostSetsOnError ==
    /\ onerror # "host"
    /\ onerror' = "host"
    /\ hostOnError' = (hostOnError \/ initRuns = 0)
    /\ UNCHANGED ops
    /\ Record("hostOnError")
    /\ UNCHANGED << cookie, now, readyState, hasBeacon, hidden, attrSiteId, script,
                    siteId, endpoint, debug, session, eventQueue, lastMouseSample,
                    scrollTimeout, lastScrollDepth, engagementTime, lastEngagementCheck,
                    waInitialized, dclRegistered, initRuns, sent, accepted,
                    scrollTop, transportOk, loadTime, hiddenTime, sinceScroll,
                    lastVisitor, authVars, feedVars >>

\* an error goes uncaught: the browser calls what window.onerror holds, the
\* tracker's trackError or the page's own handler
Error ==
    /\ script = "running"
    /\ LET st1 == IF onerror = "tracker" THEN trackError(Tracker) ELSE Tracker
       IN  Within(st1) /\ Apply(st1)
    /\ Op
    /\ Record("error")
    /\ UNCHANGED << cookie, now, readyState, hasBeacon, hidden, attrSiteId, script,
                    waInitialized, dclRegistered, aside >>

\* ---- the environment of the tracker
\* what the script's page context holds, as the script sets it
pageVars == << siteId, endpoint, debug, session, eventQueue, lastMouseSample,
               scrollTimeout, lastScrollDepth, engagementTime, lastEngagementCheck,
               waInitialized, dclRegistered, initRuns, sent, accepted, onerror >>

\* the user follows a link or reloads: a new page context, the cookie kept
Navigate ==
    /\ script # "none"
    /\ script' = "none"
    /\ \E rs \in {"loading", "interactive"} : readyState' = rs
    /\ siteId' = NULL
    /\ endpoint' = DefaultEndpoint
    /\ debug' = FALSE
    /\ session' = NoSession
    /\ eventQueue' = << >>
    /\ lastMouseSample' = 0
    /\ scrollTimeout' = << >>
    /\ sinceScroll' = scrollDebounce
    /\ lastScrollDepth' = 0
    /\ engagementTime' = 0
    /\ lastEngagementCheck' = 0
    /\ sent' = << >>
    /\ accepted' = << >>
    /\ waInitialized' = FALSE
    /\ dclRegistered' = FALSE
    /\ initRuns' = 0
    /\ hidden' = FALSE
    /\ scrollTop' = 0
    /\ onerror' = "none"
    /\ hostOnError' = FALSE
    /\ hiddenTime' = 0
    /\ ops' = 0
    /\ Record("navigate")
    /\ UNCHANGED << cookie, now, hasBeacon, attrSiteId, transportOk, loadTime,
                    lastVisitor, authVars, feedVars >>

\* the cookie is lost (expiry, or the user clearing it) or overwritten by
\* something that is not the tracker
ClearCookie ==
    /\ script = "none"
    /\ cookie # Absent
    /\ cookie' = Absent
    /\ UNCHANGED ops
    /\ Record("clear")
    /\ UNCHANGED << now, readyState, hasBeacon, hidden, attrSiteId, script, pageVars,
                    scrollTop, transportOk, loadTime,
                    hiddenTime, sinceScroll, lastVisitor, others >>

CorruptCookie ==
    /\ script = "none"
    /\ \E c \in CorruptValues : cookie' = c
    /\ UNCHANGED ops
    /\ Record("corrupt")
    /\ UNCHANGED << now, readyState, hasBeacon, hidden, attrSiteId, script, pageVars,
                    scrollTop, transportOk, loadTime,
                    hiddenTime, sinceScroll, lastVisitor, others >>

\* the stored session reaches the expiry date Cookie.set gave it, between two
\* visits: the browser drops the cookie
Expire ==
    /\ script = "none"
    /\ IsValidSession(cookie)
    /\ cookie' = Absent
    /\ lastVisitor' = cookie.val.obj.visitorId
    /\ UNCHANGED ops
    /\ Record("expire")
    /\ UNCHANGED << now, readyState, hasBeacon, hidden, attrSiteId, script, pageVars,
                    scrollTop, transportOk, loadTime,
                    hiddenTime, sinceScroll, others >>

\* another page context of the same browser (a second tab) runs the script
\* while this page is alive: its getOrCreateSession against the shared cookie
TabLoad(sid, vid) ==
    /\ script = "running"
    /\ cookie' = getOrCreateSession(cookie, now, sid, vid).cookie
    /\ UNCHANGED ops
    /\ Record("tabLoad")
    /\ UNCHANGED << now, readyState, hasBeacon, hidden, attrSiteId, script, pageVars,
                    scrollTop, transportOk, loadTime,
                    hiddenTime, sinceScroll, lastVisitor, others >>

\* the transport starts refusing batches, or accepts them again
TransportChange ==
    /\ transportOk' = ~transportOk
    /\ UNCHANGED ops
    /\ Record("transport")
    /\ UNCHANGED << cookie, now, readyState, hasBeacon, hidden, attrSiteId, script,
                    pageVars, scrollTop, loadTime,
                    hiddenTime, sinceScroll, lastVisitor, others >>

\* one unit of time passes
Tick ==
    /\ now < MaxTime
    /\ now' = now + 1
    /\ hiddenTime' = IF script = "running" /\ hidden THEN hiddenTime + 1 ELSE hiddenTime
    /\ UNCHANGED ops
    /\ Record("tick")
    /\ UNCHANGED << cookie, readyState, hasBeacon, hidden, attrSiteId, script,
                    pageVars, scrollTop, transportOk, loadTime, sinceScroll,
                    lastVisitor, others >>

\* Date.now() changes by d ms: time passing, or the system clock being set back
Advance(d) ==
    /\ now + d >= mouseSampleRate
    /\ now + d <= MaxClock
    /\ now' = now + d
    /\ hiddenTime' = IF script = "running" /\ hidden /\ d > 0 THEN hiddenTime + d
                     ELSE hiddenTime
    /\ UNCHANGED ops
    /\ Record("advance")
    /\ UNCHANGED << cookie, readyState, hasBeacon, hidden, attrSiteId, script,
                    pageVars, scrollTop, transportOk, loadTime, sinceScroll,
                    lastVisitor, others >>

\* ------------------------------------------------- the dashboard client
NoToken == 0        \* localStorage.getItem returning null
Rejected == 0       \* a fetch whose promise rejects (no response)
Replies == {Rejected, 200, 401}     \* what a query attempt comes back with: no response, or a status
RefreshOutcomes == {"ok", "notOk", "rejected"}

\* one authFetch call: where it is, its local token, the tokens its attempts
\* carried, what they came back with, the refresh token its refresh request
\* carries, how its refresh ended and the access token the refresh returned,
\* the response it returned or the error it threw
IdleCall == [pc |-> "idle", token |-> NoToken, tried |-> << >>, replies |-> << >>,
             rt |-> NoToken, refresh |-> "none", fresh |-> NoToken,
             result |-> Rejected, error |-> ""]

Threw(call, msg) == [call EXCEPT !.pc = "threw", !.error = msg]

\* authFetch up to its first await, tok being what getAccessToken returns
authFetchStart(call, tok) ==
    IF tok = NoToken THEN Threw(call, "Not authenticated")
    ELSE [call EXCEPT !.pc = "fetch1", !.token = tok, !.tried = << tok >>]

\* faulty variant of authFetchRetry: the second attempt carries the old token
authFetchRetryOldToken(call, tok) ==
    IF tok = NoToken
    THEN Threw([call EXCEPT !.refresh = "failed"], "Session expired")
    ELSE [call EXCEPT !.pc = "fetch2", !.refresh = "ok", !.fresh = tok,
                      !.tried = Append(@, call.token)]

\* authFetch after await refreshAccessToken(), tok being what it returned:
\* the session-expired error, or the second attempt under the new token
authFetchRetry(call, tok) ==
    IF tok = NoToken
    THEN Threw([call EXCEPT !.refresh = "failed"], "Session expired")
    ELSE [call EXCEPT !.pc = "fetch2", !.token = tok, !.refresh = "ok", !.fresh = tok,
                      !.tried = Append(@, tok)]

\* authFetch after its first await, r being what the first attempt came back
\* with and rt what getRefreshToken returns: a 401 goes on to the refresh (which
\* returns null at once without a refresh token), anything else is returned
authFetchFirst(call, r, rt) ==
    LET c1 == [call EXCEPT !.replies = Append(@, r)]
    IN  IF r = Rejected THEN Threw(c1, "fetch failed")
        ELSE IF r # 401 THEN [c1 EXCEPT !.pc = "returned", !.result = r]
        ELSE IF rt = NoToken THEN authFetchRetry(c1, NoToken)
        ELSE [c1 EXCEPT !.pc = "refresh", !.rt = rt]

\* authFetch after its second await: the response is returned as it is
authFetchSecond(call, r) ==
    LET c1 == [call EXCEPT !.replies = Append(@, r)]
    IN  IF r = Rejected THEN Threw(c1, "fetch failed")
        ELSE [c1 EXCEPT !.pc = "returned", !.result = r]

\* refreshAccessToken after its await, o being how the refresh request ended and
\* new the token pair of an ok response: the tokens stored and the token returned
\* (what localStorage holds by then is not looked at)
refreshAccessToken(o, new) ==
    IF o = "ok"
    THEN [access |-> new, refresh |-> new, returned |-> new]        \* setTokens
    ELSE [access |-> NoToken, refresh |-> NoToken, returned |-> NoToken]  \* clearTokens

trackerVars == << cookie, now, readyState, hasBeacon, hidden, attrSiteId, scrollTop,
                  transportOk, script, pageVars, ops, lastOp, pre, loadTime,
                  hiddenTime, sinceScroll, hostOnError, lastVisitor >>

\* a dashboard query starts
AuthFetch(c) ==
    /\ calls[c].pc = "idle"
    /\ calls' = [calls EXCEPT ![c] = authFetchStart(@, accessToken)]
    /\ UNCHANGED << accessToken, refreshToken, issued, trackerVars, feedVars >>

\* the first attempt of call c comes back with r
FirstResponse(c, r) ==
    /\ calls[c].pc = "fetch1"
    /\ calls' = [calls EXCEPT ![c] = authFetchFirst(@, r, refreshToken)]
    /\ UNCHANGED << accessToken, refreshToken, issued, trackerVars, feedVars >>

\* the refresh request of call c ends with outcome o
RefreshResponse(c, o) ==
    /\ calls[c].pc = "refresh"
    /\ o = "ok" => issued < MaxTokens
    /\ LET r == refreshAccessToken(o, issued + 1)
       IN  /\ accessToken' = r.access
           /\ refreshToken' = r.refresh
           /\ issued' = IF o = "ok" THEN issued + 1 ELSE issued
           /\ calls' = [calls EXCEPT ![c] = authFetchRetry(@, r.returned)]
    /\ UNCHANGED << trackerVars, feedVars >>

\* the second attempt of call c comes back with r
SecondResponse(c, r) ==
    /\ calls[c].pc = "fetch2"
    /\ calls' = [calls EXCEPT ![c] = authFetchSecond(@, r)]
    /\ UNCHANGED << accessToken, refreshToken, issued, trackerVars, feedVars >>

\* the user logs out in between: clearTokens
Logout ==
    /\ accessToken # NoToken \/ refreshToken # NoToken
    /\ accessToken' = NoToken
    /\ refreshToken' = NoToken
    /\ UNCHANGED << issued, calls, trackerVars, feedVars >>

\* ------------------------------------------------- the live events page
sessionsPolled == 3     \* sessionsData.sessions.slice(0, 3)
lastEvents == 10        \* sessionDetail.events.slice(-10)
maxShown == 100         \* [...newEvents, ...prev].slice(0, 100)
SessionIds == {1, 2}    \* the sessions getSessions lists, in this order

\* evs.slice(-n)
SliceLast(evs, n) == IF Len(evs) <= n THEN evs ELSE SubSeq(evs, Len(evs) - n + 1, Len(evs))

\* evs.slice(0, n)
SliceFirst(evs, n) == IF Len(evs) <= n THEN evs ELSE SubSeq(evs, 1, n)

\* `${session.session_id}-${event.timestamp}-${index}`
EventId(s, ts, index) == << s, ts, index >>

\* the forEach over the last events of session s, seen being the ids taken so
\* far: the events pushed to newEvents, in order, and the ids now taken
TakeSession(s, evs, seen) ==
    LET last == SliceLast(evs, lastEvents)
        all == [i \in 1..Len(last) |->
                   [id |-> EventId(s, last[i], i - 1), sessionId |-> s,
                    timestamp |-> last[i]]]
        IsNew(e) == e.id \notin seen
    IN  [new |-> SelectSeq(all, IsNew),
         seen |-> seen \cup {all[i].id : i \in 1..Len(all)}]

\* the loop over the first sessions from session s on, ok being the sessions
\* whose getSession call succeeds (the others are skipped by the inner catch)
RECURSIVE TakeSessions(_, _, _, _)
TakeSessions(s, data, ok, acc) ==
    IF s \notin SessionIds \/ s > sessionsPolled THEN acc
    ELSE LET r == IF s \in ok THEN TakeSession(s, data[s], acc.seen)
                  ELSE [new |-> << >>, seen |-> acc.seen]
         IN  TakeSessions(s + 1, data, ok,
                          [new |-> acc.new \o r.new, seen |-> r.seen])

\* one run of fetchLatestEvents: the displayed list and the ids taken
fetchLatestEvents(data, shown, seen, ok) ==
    LET r == TakeSessions(1, data, ok, [new |-> << >>, seen |-> seen])
    IN  [events |-> IF Len(r.new) > 0 THEN SliceFirst(r.new \o shown, maxShown)
                    ELSE shown,
         seen |-> r.seen]

\* the tracker of a visitor's page delivers one more event of session s
BackendEvent(s) ==
    /\ Len(backend[s]) < MaxBackend
    /\ backend' = [backend EXCEPT ![s] = Append(@, Len(@) + 1)]
    /\ UNCHANGED << events, seenEventsRef, isPaused, trackerVars, authVars >>

\* the poll of the events page (at mount and every 5 s while not paused)
Poll(ok) ==
    /\ ~isPaused
    /\ LET r == fetchLatestEvents(backend, events, seenEventsRef, ok)
       IN  /\ events' = r.events
           /\ seenEventsRef' = r.seen
    /\ UNCHANGED << backend, isPaused, trackerVars, authVars >>

\* the Pause / Resume button
TogglePause ==
    /\ isPaused' = ~isPaused
    /\ UNCHANGED << backend, events, seenEventsRef, trackerVars, authVars >>

\* -------------------------------------------------------- specifications
NoPre == [cookie |-> Absent, qlen |-> 0, nsent |-> 0, nacc |-> 0, siteId |-> NULL,
          initRuns |-> 0, op |-> "none", opSent |-> 0, opWork |-> FALSE,
          arg |-> NoArg, eng |-> 0, timers |-> << >>, onerror |-> "none"]

\* no dashboard query running, nobody logged in
AuthIdle ==
    /\ accessToken = NoToken
    /\ refreshToken = NoToken
    /\ issued = 0
    /\ calls = [c \in 1..MaxCalls |-> IdleCall]

\* the browser about to run the script, the clock reading t
BrowserAt(t) ==
    /\ now = t
    /\ readyState \in {"loading", "interactive"}
    /\ hasBeacon \in BOOLEAN
    /\ hidden = FALSE
    /\ attrSiteId \in AttrValues
    /\ scrollTop = 0
    /\ transportOk = TRUE
    /\ script = "none"
    /\ siteId = NULL
    /\ endpoint = DefaultEndpoint
    /\ debug = FALSE
    /\ session = NoSession
    /\ eventQueue = << >>
    /\ lastMouseSample = 0
    /\ scrollTimeout = << >>
    /\ lastScrollDepth = 0
    /\ engagementTime = 0
    /\ lastEngagementCheck = 0
    /\ waInitialized = FALSE
    /\ dclRegistered = FALSE
    /\ initRuns = 0
    /\ ops = 0
    /\ sent = << >>
    /\ accepted = << >>
    /\ lastOp = "none"
    /\ pre = NoPre
    /\ loadTime = 0
    /\ hiddenTime = 0
    /\ sinceScroll = scrollDebounce
    /\ onerror = "none"
    /\ hostOnError = FALSE
    /\ lastVisitor = Undef

\* the live events page not yet open, each session short of lastEvents events
FeedIdle ==
    /\ backend = [s \in SessionIds |-> [k \in 1..(lastEvents - 1) |-> k]]
    /\ events = << >>
    /\ seenEventsRef = {}
    /\ isPaused = FALSE

\* a page about to run the script
PageAt(t) == BrowserAt(t) /\ AuthIdle /\ FeedIdle
PageInit == PageAt(0)

\* One page lifetime of a tracker configured by data-site-id="T1": the capture
\* and flush pipeline at the full batch size, the host page changing or
\* clearing the site id on the way.
Init == PageInit /\ cookie = Absent /\ attrSiteId = "T1"

Next ==
    \/ ScriptLoad(1, 2)
    \/ DOMContentLoaded
    \/ \E v \in SiteIdValues : SetSiteId(v)
    \/ Click
    \/ Track
    \/ Flush
    \/ TimerFlush
    \/ VisibilityChange
    \/ Unload

Spec == Init /\ [][Next]_vars

\* One page lifetime seen from the public control surface: the site id set,
\* changed and cleared by the host page, before and after DOMContentLoaded.
SurfaceInit == PageInit /\ cookie = Absent

SurfaceNext ==
    \/ ScriptLoad(1, 2)
    \/ DOMContentLoaded
    \/ \E v \in SiteIdValues : SetSiteId(v)
    \/ Track
    \/ \E u \in UserIds, tr \in TraitValues : Identify(u, tr)
    \/ Flush
    \/ TimerFlush
    \/ VisibilityChange
    \/ Unload

SpecSurface == SurfaceInit /\ [][SurfaceNext]_vars

\* The identity store over successive page loads.
SessionInit == PageInit /\ cookie \in {Absent} \cup CorruptValues

LoadsWithin ==
    cookie.val.obj.pageViews.k = "num" => cookie.val.obj.pageViews.v < MaxLoads

SessionNext ==
    \/ \E sid \in 1..MaxIds, vid \in 1..MaxIds : ScriptLoad(sid, vid) /\ LoadsWithin
    \/ Navigate
    \/ ClearCookie
    \/ CorruptCookie
    \/ Tick

SpecSession == SessionInit /\ [][SessionNext]_vars

\* Mouse sampling: move signals at clock readings that advance, stand still or
\* are set back.  The clock starts mouseSampleRate ms after the epoch.
MouseInit ==
    PageAt(mouseSampleRate) /\ cookie = Absent /\ hasBeacon /\ attrSiteId = NULL
                            /\ readyState = "loading"

MouseNext ==
    \/ ScriptLoad(1, 2)
    \/ DOMContentLoaded
    \/ \E v \in {NULL, "T1"} : SetSiteId(v)
    \/ MouseMove
    \/ \E d \in ClockSteps : Advance(d)

SpecMouse == MouseInit /\ [][MouseNext]_vars

\* Scroll capture over one page lifetime.
ScrollInit ==
    PageInit /\ cookie = Absent /\ hasBeacon /\ attrSiteId = "T1"
             /\ readyState = "interactive"

ScrollNext ==
    \/ ScriptLoad(1, 2)
    \/ \E v \in {NULL, "T1"} : SetSiteId(v)
    \/ \E p \in ScrollTops : Scroll(p)
    \/ ScrollSettled

SpecScroll == ScrollInit /\ [][ScrollNext]_vars

\* Scroll capture against timer time: scroll signals ElapseSteps apart or closer,
\* a timer firing when its delay has run.
ElapseSteps == {50, 100}

DebounceNext ==
    \/ ScriptLoad(1, 2)
    \/ \E p \in {0, 5, 10, 20} : Scroll(p)
    \/ \E d \in ElapseSteps : Elapse(d)
    \/ ScrollSettled /\ TimerDue

SpecDebounce == ScrollInit /\ [][DebounceNext]_vars

\* The identity of the visitor over successive visits, the cookie written by
\* the tracker only: page loads, identify, the stored session expiring.  The
\* i-th new session draws the i-th pair of ids from generateId.
IdentityInit ==
    PageInit /\ cookie = Absent /\ hasBeacon /\ readyState = "interactive"

IdentityNext ==
    \/ \E i \in 1..MaxIds : ScriptLoad(i, i) /\ LoadsWithin
    \/ \E u \in 1..MaxIds, tr \in TraitValues : Identify(u, tr)
    \/ Navigate
    \/ Expire

SpecIdentity == IdentityInit /\ [][IdentityNext]_vars

\* Two page contexts of one session alive together: this page and a second
\* tab, each turn of either running to its end before the next starts.
TabsInit == IdentityInit /\ attrSiteId = "T1"

TabsNext ==
    \/ ScriptLoad(1, 2) /\ LoadsWithin
    \/ TabLoad(1, 2) /\ LoadsWithin
    \/ \E u \in UserIds : Identify(u, Undef)
    \/ Tick

SpecTabs == TabsInit /\ [][TabsNext]_vars

\* The flush timer against the public control surface.
TimerInit ==
    PageInit /\ cookie = Absent /\ attrSiteId = "T1" /\ hasBeacon
             /\ readyState = "interactive"

TimerNext ==
    \/ ScriptLoad(1, 2)
    \/ \E v \in {NULL, "T1"} : SetSiteId(v)
    \/ \E url \in Endpoints : SetEndpoint(url)
    \/ \E b \in BOOLEAN : SetDebug(b)
    \/ Track
    \/ \E u \in UserIds : Identify(u, Undef)
    \/ Click
    \/ TimerFlush

SpecTimer == TimerInit /\ [][TimerNext]_vars

\* The flush controller against a transport that may refuse a batch.
TransportInit ==
    PageInit /\ cookie = Absent /\ attrSiteId = "T1" /\ readyState = "interactive"

TransportNext ==
    \/ ScriptLoad(1, 2)
    \/ Click
    \/ Track
    \/ Flush
    \/ TimerFlush
    \/ TransportChange

SpecTransport == TransportInit /\ [][TransportNext]_vars

\* Successive pages of one session, time passing, each page unloaded.
ExitInit == PageInit /\ cookie = Absent /\ attrSiteId = "T1" /\ hasBeacon

ExitNext ==
    \/ ScriptLoad(1, 2) /\ LoadsWithin
    \/ DOMContentLoaded
    \/ Tick
    \/ UpdateEngagement
    \/ VisibilityChange
    \/ Unload
    \/ Navigate

SpecExit == ExitInit /\ [][ExitNext]_vars

\* Uncaught errors on a page that has its own handler on window.onerror.
ErrorsInit == PageInit /\ cookie = Absent /\ hasBeacon

ErrorsNext ==
    \/ ScriptLoad(1, 2)
    \/ DOMContentLoaded
    \/ \E v \in {NULL, "T1"} : SetSiteId(v)
    \/ HostSetsOnError
    \/ Error
    \/ Flush

SpecErrors == ErrorsInit /\ [][ErrorsNext]_vars

\* Dashboard queries running together, the user logged in or not.
AuthInit ==
    /\ BrowserAt(0) /\ cookie = Absent /\ attrSiteId = NULL /\ hasBeacon
                    /\ readyState = "loading"
    /\ accessToken \in {NoToken, 1}
    /\ refreshToken \in {NoToken, 1}
    /\ issued = 1
    /\ calls = [c \in 1..MaxCalls |-> IdleCall]
    /\ FeedIdle

AuthNext ==
    \/ \E c \in 1..MaxCalls : AuthFetch(c)
    \/ \E c \in 1..MaxCalls, r \in Replies : FirstResponse(c, r)
    \/ \E c \in 1..MaxCalls, o \in RefreshOutcomes : RefreshResponse(c, o)
    \/ \E c \in 1..MaxCalls, r \in Replies : SecondResponse(c, r)
    \/ Logout

SpecAuth == AuthInit /\ [][AuthNext]_vars

\* The queries of one Promise.all (getStats and getSessions) running together,
\* the user logged in and staying so.
RefreshInit == AuthInit /\ accessToken = 1 /\ refreshToken = 1

RefreshNext ==
    \/ \E c \in 1..MaxCalls : AuthFetch(c)
    \/ \E c \in 1..MaxCalls, r \in Replies : FirstResponse(c, r)
    \/ \E c \in 1..MaxCalls, o \in RefreshOutcomes : RefreshResponse(c, o)
    \/ \E c \in 1..MaxCalls, r \in Replies : SecondResponse(c, r)

SpecRefresh == RefreshInit /\ [][RefreshNext]_vars

\* The live events page polling while the sessions gain events.
FeedInit == BrowserAt(0) /\ cookie = Absent /\ attrSiteId = NULL /\ hasBeacon
                         /\ readyState = "loading" /\ AuthIdle /\ FeedIdle

FeedNext ==
    \/ \E s \in SessionIds : BackendEvent(s)
    \/ \E ok \in SUBSET SessionIds : Poll(ok)
    \/ TogglePause

SpecFeed == FeedInit /\ [][FeedNext]_vars

\* ------------------------------------------------------------ properties
\* the events of the batches handed to the transport, in hand-off order
RECURSIVE Flat(_)
Flat(bs) ==
    IF bs = << >> THEN << >>
    ELSE Flat(SubSeq(bs, 1, Len(bs) - 1)) \o bs[Len(bs)].events

CountType(acc, type) == Cardinality({i \in 1..Len(acc) : acc[i].type = type})

\* C1: a page load that finds a valid stored session returns the stored session
\* id and visitor id, with is-new false, and writes back a page-view counter
\* exactly 1 greater than the one it read.
C1_ValidReload ==
    (lastOp = "load" /\ IsValidSession(pre.cookie)) =>
        /\ script = "running"
        /\ session.obj.id = pre.cookie.val.obj.id
        /\ session.obj.visitorId = pre.cookie.val.obj.visitorId
        /\ session.obj.isNew = Bool(FALSE)
        /\ IsValidSession(cookie)
        /\ cookie.val.obj.id = pre.cookie.val.obj.id
        /\ cookie.val.obj.visitorId = pre.cookie.val.obj.visitorId
        /\ cookie.val.obj.pageViews = Num(pre.cookie.val.obj.pageViews.v + 1)

\* a second reload of the same stored session
C1_Witness ==
    /\ lastOp = "load"
    /\ IsValidSession(pre.cookie)
    /\ pre.cookie.val.obj.pageViews = Num(2)
    /\ cookie.val.obj.pageViews = Num(3)

\* C2: a page load that finds no cookie, or a cookie that is not a well-formed
\* stored session, does not throw and yields a new session: fresh ids,
\* page-view counter 1, is-new true.
C2_CorruptAsAbsent ==
    (lastOp = "load" /\ ~IsValidSession(pre.cookie)) =>
        /\ script = "running"
        /\ session.obj.id.k = "str"
        /\ session.obj.visitorId.k = "str"
        /\ session.obj.pageViews = Num(1)
        /\ session.obj.isNew = Bool(TRUE)

\* C3: an enqueue attempted while no site id is configured appends nothing and
\* triggers no flush: the queue, the accepted events and the transmissions are
\* what they were (a queue of length 0 remains of length 0).
EnqueueOps == {"track", "identify", "visibilitychange", "beforeunload"}
C3_NoTenantNoEnqueue ==
    (lastOp \in EnqueueOps /\ ~Truthy(pre.siteId)) =>
        /\ Len(eventQueue) = pre.qlen
        /\ Len(accepted) = pre.nacc
        /\ Len(sent) = pre.nsent

\* the unload handler running after the site id was cleared, events still queued
C3_Witness ==
    /\ lastOp = "beforeunload"
    /\ ~Truthy(pre.siteId)
    /\ pre.qlen > 0
    /\ Len(eventQueue) = pre.qlen

\* C4: the queue is shorter than the batch size in every state; the append that
\* makes it reach the batch size flushes within the same call, as one batch of
\* batchSize events, and leaves the queue empty.
C4_QueueBelowBatch ==
    /\ Len(eventQueue) < batchSize
    /\ (/\ lastOp \in {"click", "track"}
        /\ Len(accepted) = pre.nacc + 1
        /\ pre.qlen = batchSize - 1) =>
          /\ eventQueue = << >>
          /\ Len(sent) = pre.nsent + 1
          /\ Len(sent[Len(sent)].events) = batchSize

C4_Witness ==
    /\ lastOp = "click"
    /\ pre.qlen = batchSize - 1
    /\ eventQueue = << >>
    /\ Len(sent) = pre.nsent + 1

\* C5: init runs at most once per page load, whatever the order of the script
\* load, the DOMContentLoaded callback and the setSiteId calls, and an activated
\* page has produced exactly one pageview event.
C5_InitOnce ==
    /\ initRuns <= 1
    /\ CountType(accepted, "pageview") = (IF waInitialized THEN 1 ELSE 0)

\* C6: the batches handed to the transport, concatenated in hand-off order and
\* followed by the queue, are the accepted events in capture order (each event
\* carries its capture ordinal, so none is in two batches).
C6_BatchesPartitionAccepted ==
    /\ Flat(sent) \o eventQueue = accepted
    /\ \A i \in 1..Len(accepted) : accepted[i].n = i

\* the size threshold and the hidden trigger in the same tick: one batch
C6_Witness ==
    /\ lastOp = "visibilitychange"
    /\ hidden
    /\ pre.qlen = batchSize - 1
    /\ Len(sent) = pre.nsent + 1
    /\ Len(sent) >= 2

\* C7: flush with an empty queue or without a site id hands nothing to a
\* transport and changes no tracker state; no payload has an empty event list
\* or lacks a site id.
C7_FlushNoOp ==
    /\ (lastOp \in {"flush", "timer"} /\ (pre.qlen = 0 \/ ~Truthy(pre.siteId))) =>
          /\ Len(sent) = pre.nsent
          /\ Len(eventQueue) = pre.qlen
          /\ Len(accepted) = pre.nacc
          /\ siteId = pre.siteId
          /\ initRuns = pre.initRuns
          /\ cookie = pre.cookie
    /\ \A i \in 1..Len(sent) : sent[i].events # << >> /\ Truthy(sent[i].site_id)

\* flush called with events queued after the site id was cleared
C7_Witness ==
    /\ lastOp = "flush"
    /\ pre.qlen > 0
    /\ ~Truthy(pre.siteId)
    /\ Len(eventQueue) = pre.qlen

\* C8: of two flush calls in succession the second transmits nothing, and the
\* two together make exactly one transmission attempt (the first call finding
\* events to send).
C8_FlushTwice ==
    (lastOp = "flush" /\ pre.op = "flush") =>
        /\ Len(sent) = pre.nsent
        /\ pre.opWork => pre.opSent + (Len(sent) - pre.nsent) = 1

C8_Witness ==
    /\ lastOp = "flush"
    /\ pre.op = "flush"
    /\ pre.opWork
    /\ pre.opSent = 1

\* the state after init under site id "T1" and 10 clicks, nothing else having run
TenClicks ==
    /\ ops = 0
    /\ siteId = "T1"
    /\ initRuns = 1
    /\ CountType(accepted, "click") = 10

\* C9 as stated: one automatic flush, of a batch of 10 click events under the
\* configured site id, and an empty queue.
C9_TenClicksOneBatch ==
    TenClicks =>
        /\ Len(sent) = 1
        /\ sent[1].site_id = "T1"
        /\ Len(sent[1].events) = 10
        /\ \A i \in 1..Len(sent[1].events) : sent[1].events[i].type = "click"
        /\ eventQueue = << >>

\* C9 amended: one automatic flush, of a batch of 10 events under the configured
\* site id: the pageview event of init followed by the first 9 clicks; the 10th
\* click is left in the queue.
C9_TenClicksAmended ==
    TenClicks =>
        /\ Len(sent) = 1
        /\ sent[1].site_id = "T1"
        /\ sent[1].events = SubSeq(accepted, 1, 10)
        /\ sent[1].events[1].type = "pageview"
        /\ \A i \in 2..10 : sent[1].events[i].type = "click"
        /\ Len(eventQueue) = 1
        /\ eventQueue[1] = accepted[11]
        /\ eventQueue[1].type = "click"

C9_Witness == TenClicks /\ lastOp = "click" /\ Len(accepted) = 11

\* C10: the unload handler, run with k events queued and a site id configured,
\* appends page_exit after them and hands everything off: page_exit is the last
\* event of the last batch, the queue is empty, and the hand-off order is the
\* capture order.
C10_UnloadDrains ==
    (lastOp = "beforeunload" /\ Truthy(pre.siteId)) =>
        /\ eventQueue = << >>
        /\ Len(accepted) > pre.nacc
        /\ accepted[pre.nacc + 1].type = "page_exit"
        /\ Len(sent) > pre.nsent
        /\ sent[Len(sent)].events[Len(sent[Len(sent)].events)].type = "page_exit"
        /\ Flat(sent) = accepted

\* k = batchSize - 1: page_exit fills the batch
C10_Witness ==
    /\ lastOp = "beforeunload"
    /\ Truthy(pre.siteId)
    /\ pre.qlen = batchSize - 1
    /\ eventQueue = << >>

\* the positions of the accepted events of a type
OfType(type) == {i \in 1..Len(accepted) : accepted[i].type = type}

\* C11: any two accepted mousemove events carry clock readings at least
\* mouseSampleRate apart (so of the move signals read within one window of that
\* length at most one is queued), a signal read within mouseSampleRate of the
\* last sample changing nothing, however often init ran.
C11_MouseThrottle ==
    /\ \A i, j \in OfType("mousemove") :
          i < j => accepted[j].timestamp - accepted[i].timestamp >= mouseSampleRate
    /\ (lastOp = "mousemove" /\ now - lastMouseSample < mouseSampleRate
          /\ now # lastMouseSample) =>
          /\ Len(accepted) = pre.nacc
          /\ Len(eventQueue) = pre.qlen

\* a second sample, taken after init ran twice, the clock having been set back
\* in between
C11_Witness ==
    /\ Cardinality(OfType("mousemove")) = 2
    /\ initRuns = 2
    /\ lastOp = "mousemove"
    /\ pre.op = "advance"


\* the depths of the accepted scroll events, in capture order
RECURSIVE DepthsOf(_)
DepthsOf(acc) ==
    IF acc = << >> THEN << >>
    ELSE LET rest == DepthsOf(SubSeq(acc, 1, Len(acc) - 1))
             e == acc[Len(acc)]
         IN  IF e.type = "scroll" THEN Append(rest, e.data.depth.v) ELSE rest

\* C12: each accepted scroll event's depth exceeds the depth of the scroll event
\* accepted before it (0 before the first) by more than scrollMargin, so the
\* depths never decrease and a page lifetime yields at most 10 scroll events
\* between depth 0 and depth 100.
C12_ScrollSparse ==
    LET ds == DepthsOf(accepted)
    IN  /\ \A i \in 1..Len(ds) :
              ds[i] > (IF i = 1 THEN 0 ELSE ds[i - 1]) + scrollMargin
        /\ \A i \in 1..Len(ds) : ds[i] <= 100
        /\ Len(ds) <= 10

\* the page settling one step above the margin three times, then back at the top
C12_Witness ==
    /\ Len(DepthsOf(accepted)) = 3
    /\ DepthsOf(accepted)[3] = 50
    /\ lastOp = "scrollSettled"
    /\ scrollTop = 0
    /\ Len(accepted) = pre.nacc


\* C13: a new session created on a device whose stored session expired carries
\* the visitor id of the session that expired.
C13_VisitorStable ==
    (lastOp = "load" /\ script = "running" /\ session.obj.isNew = Bool(TRUE)
       /\ lastVisitor.k = "str") =>
        session.obj.visitorId = lastVisitor


\* C14: right after identify(userId, traits) the in-memory session and the stored
\* cookie both carry that user id and those traits, whether or not the identify
\* event was queued; leaving the page keeps the cookie, and a page load that
\* reuses the stored session returns and stores the user id and traits it found.
C14_IdentifyPersists ==
    /\ lastOp = "identify" =>
          /\ session.obj.userId = pre.arg.userId
          /\ session.obj.traits = pre.arg.traits
          /\ cookie.kind = "json"
          /\ cookie.val.obj.userId = pre.arg.userId
          /\ cookie.val.obj.traits = pre.arg.traits
          /\ cookie.val.obj.id = session.obj.id
    /\ lastOp = "navigate" => cookie = pre.cookie
    /\ (lastOp = "load" /\ IsValidSession(pre.cookie)) =>
          /\ session.obj.userId = pre.cookie.val.obj.userId
          /\ session.obj.traits = pre.cookie.val.obj.traits
          /\ cookie.val.obj.userId = pre.cookie.val.obj.userId
          /\ cookie.val.obj.traits = pre.cookie.val.obj.traits

\* a second reload after identify was called on a page without a site id
C14_Witness ==
    /\ lastOp = "load"
    /\ ~Truthy(siteId)
    /\ session.obj.userId = Str(2)
    /\ session.obj.traits = Str(1)
    /\ session.obj.pageViews = Num(3)


\* C19: no write of the session cookie by a page load or by identify, from this
\* page or from a second tab of the same session, lowers the stored page-view
\* counter or replaces the stored last-activity time by an older one.
C19_CounterMonotone ==
    (/\ lastOp \in {"load", "tabLoad", "identify"}
     /\ IsValidSession(pre.cookie)
     /\ IsValidSession(cookie)
     /\ cookie.val.obj.id = pre.cookie.val.obj.id) =>
        /\ cookie.val.obj.pageViews.v >= pre.cookie.val.obj.pageViews.v
        /\ cookie.val.obj.lastActivity.v >= pre.cookie.val.obj.lastActivity.v


\* C15 as stated: once a flush timer runs, every accepted event has been handed
\* to the transport by the end of the next timer tick, or as soon as the queue
\* holds batchSize events, whatever public calls came in between.
C15_TimerDrains ==
    /\ Len(eventQueue) < batchSize
    /\ lastOp = "timer" =>
          /\ eventQueue = << >>
          /\ Flat(sent) = accepted

\* C15 amended: a timer tick that finds a site id configured leaves every
\* accepted event handed to the transport; a timer tick that finds the site id
\* cleared hands nothing over and leaves the queue as it was; the queue never
\* holds batchSize events and loses events to the transport only.
C15_TimerDrainsAmended ==
    /\ Len(eventQueue) < batchSize
    /\ Flat(sent) \o eventQueue = accepted
    /\ (lastOp = "timer" /\ Truthy(pre.siteId)) =>
          /\ eventQueue = << >>
          /\ Flat(sent) = accepted
    /\ (lastOp = "timer" /\ ~Truthy(pre.siteId)) =>
          /\ Len(eventQueue) = pre.qlen
          /\ Len(sent) = pre.nsent

\* a timer tick right after setEndpoint, events queued: handed to the new endpoint
C15_Witness ==
    /\ lastOp = "timer"
    /\ pre.op = "setEndpoint"
    /\ Truthy(pre.siteId)
    /\ pre.qlen > 1
    /\ eventQueue = << >>
    /\ sent[Len(sent)].to = "E1"


\* the operation that ran last handed a batch to a transport that refused it
HandOffFailed ==
    /\ lastOp \in {"flush", "timer", "click", "track"}
    /\ Len(sent) = pre.nsent + 1
    /\ ~sent[Len(sent)].ok

\* C16: a hand-off the transport refuses leaves the script running and the queue
\* empty; the events of a refused batch are in no later batch and not in the
\* queue; and whatever was refused before, an enqueue under a site id is
\* accepted and a flush with events queued under a site id hands them all off.
C16_FailureSwallowed ==
    /\ HandOffFailed => (script = "running" /\ eventQueue = << >>)
    /\ Flat(sent) \o eventQueue = accepted
    /\ \A i \in 1..Len(accepted) : accepted[i].n = i
    /\ (lastOp \in {"click", "track"} /\ Truthy(pre.siteId)) =>
          Len(accepted) = pre.nacc + 1
    /\ (lastOp \in {"flush", "timer"} /\ pre.qlen > 0 /\ Truthy(pre.siteId)) =>
          /\ Len(sent) = pre.nsent + 1
          /\ Len(sent[Len(sent)].events) = pre.qlen

\* a batch accepted after a batch that was refused, each with its own events
C16_Witness ==
    /\ Len(sent) = 2
    /\ ~sent[1].ok
    /\ sent[2].ok
    /\ lastOp = "timer"
    /\ eventQueue = << >>

\* C18 as stated: when the transport refuses the batch, the events of the batch
\* are still in the queue after flush returns.
C18_ClearedOnHandOff ==
    (HandOffFailed /\ lastOp \in {"flush", "timer"}) =>
        eventQueue = sent[Len(sent)].events

\* C18 amended: flush with events queued under a site id leaves the queue empty
\* whether the transport accepts the batch or refuses it.
C18_ClearedOnDetach ==
    (lastOp \in {"flush", "timer"} /\ pre.qlen > 0 /\ Truthy(pre.siteId)) =>
        /\ eventQueue = << >>
        /\ sent[Len(sent)].ok = transportOk

\* flush() handing three events to a beacon that refuses them
C18_Witness ==
    /\ lastOp = "flush"
    /\ pre.qlen = 3
    /\ ~transportOk
    /\ hasBeacon
    /\ eventQueue = << >>
    /\ Len(sent) = pre.nsent + 1


\* the page_exit event the unload handler has just accepted
ExitEvent == accepted[pre.nacc + 1]

\* C20: the page_exit event accepted at unload carries as timeOnPage the time
\* elapsed since this page's script ran, on the first page of a session and on
\* a page that reuses a stored session alike, and an engagementTime that does
\* not exceed it.
C20_TimeOnPage ==
    (lastOp = "beforeunload" /\ Len(accepted) > pre.nacc) =>
        /\ ExitEvent.type = "page_exit"
        /\ ExitEvent.data.timeOnPage = Num(now - loadTime)
        /\ ExitEvent.data.engagementTime.v <= ExitEvent.data.timeOnPage.v


\* C17: an authFetch call makes at most two attempts; a second attempt is made
\* only after a first response of 401 and a refresh that returned a token, and it
\* carries that token; what the second attempt comes back with is returned as it
\* is, a 401 included; a call whose refresh failed has made one attempt and
\* ended with the session-expired error.
C17_AtMostTwoAttempts ==
    \A c \in 1..MaxCalls :
        LET call == calls[c]
        IN  /\ Len(call.tried) <= 2
            /\ Len(call.replies) <= Len(call.tried)
            /\ Len(call.tried) = 2 =>
                  /\ call.replies[1] = 401
                  /\ call.refresh = "ok"
                  /\ call.fresh # NoToken
                  /\ call.tried[2] = call.fresh
                  /\ call.tried[2] # call.tried[1]
            /\ (Len(call.replies) >= 1 /\ call.replies[1] # 401) =>
                  Len(call.tried) = 1
            /\ (call.pc = "returned" /\ Len(call.tried) = 2) =>
                  call.result = call.replies[2]
            /\ Len(call.replies) = 2 => call.pc \in {"returned", "threw"}
            /\ call.refresh = "failed" =>
                  /\ Len(call.tried) = 1
                  /\ call.pc = "threw"
                  /\ call.error = "Session expired"

\* a call whose second attempt came back 401 and was returned, the other call
\* having cleared the stored tokens by a failed refresh of its own
C17_Witness ==
    /\ calls[1].pc = "returned"
    /\ Len(calls[1].tried) = 2
    /\ calls[1].result = 401
    /\ calls[2].refresh = "failed"
    /\ accessToken = NoToken


\* C21: in one page lifetime at most one page_exit event is accepted, and no
\* event is accepted after it, the unload signal firing once or several times
\* and the page staying alive or not.
C21_ExitFinal ==
    /\ CountType(accepted, "page_exit") <= 1
    /\ \A i \in 1..Len(accepted) :
          accepted[i].type = "page_exit" => i = Len(accepted)


\* C22: when the page becomes hidden with the tracker active under a site id,
\* the visibility event is accepted before the hidden-triggered flush runs: it
\* carries hidden = true, it is the last event of the last batch handed off,
\* and the queue is empty once the handlers have run.
C22_HiddenFlushesVisibility ==
    (lastOp = "visibilitychange" /\ hidden /\ pre.initRuns >= 1
       /\ Truthy(pre.siteId)) =>
        /\ Len(accepted) = pre.nacc + 1
        /\ accepted[Len(accepted)].type = "visibility"
        /\ accepted[Len(accepted)].data.hidden = Bool(TRUE)
        /\ eventQueue = << >>
        /\ Len(sent) = pre.nsent + 1
        /\ sent[Len(sent)].events[Len(sent[Len(sent)].events)] = accepted[Len(accepted)]
        /\ Len(sent[Len(sent)].events) = pre.qlen + 1

\* the page hidden after init ran twice, four events queued
C22_Witness ==
    /\ lastOp = "visibilitychange"
    /\ hidden
    /\ pre.initRuns = 2
    /\ pre.qlen = 4
    /\ Len(sent) = 1
    /\ eventQueue = << >>



\* C23: engagement time is accumulated only while the document is visible: the
\* accumulator never decreases, a tick of the engagement timer that finds the
\* document hidden adds nothing, and the accumulated time is at most the time
\* the document has been visible since the script ran (the time since then
\* less the time spent hidden).
C23_EngagementVisibleOnly ==
    script = "running" =>
        /\ engagementTime <= (now - loadTime) - hiddenTime
        /\ lastOp = "engagement" => engagementTime >= pre.eng
        /\ (lastOp = "engagement" /\ hidden) => engagementTime = pre.eng


\* C24: scroll handling is a debounce: a scroll signal cancels the pending
\* settle timer and starts a new one, so at most one timer is pending, due 150 ms
\* after the last signal; the depth is evaluated when that timer fires, 150 ms
\* after the last signal of the burst, and no timer is left behind to evaluate
\* it again.
C24_Debounce ==
    /\ Len(scrollTimeout) <= 1
    /\ scrollTimeout # << >> => scrollTimeout[1] = scrollDebounce - sinceScroll
    /\ (lastOp = "scroll" /\ pre.initRuns >= 1) => scrollTimeout = << scrollDebounce >>
    /\ lastOp = "scrollSettled" =>
        /\ pre.timers = << 0 >>
        /\ sinceScroll = scrollDebounce
        /\ scrollTimeout = << >>

\* a scroll signal 100 ms after the previous one restarts the timer
C24_Witness ==
    /\ lastOp = "scroll"
    /\ pre.timers = << 50 >>
    /\ scrollTimeout = << scrollDebounce >>
    /\ CountType(accepted, "scroll") = 1


\* C25: each batch goes to one transport, chosen by availability alone: with
\* sendBeacon available every batch is handed to the beacon, also a batch the
\* beacon refuses, and no request is issued; without it every batch is a
\* keep-alive POST carrying the site id in the X-Site-ID header.  An operation
\* that flushes makes one hand-off, and a refused hand-off leaves the script
\* running with the queue empty.
C25_OneTransport ==
    /\ \A i \in 1..Len(sent) :
          /\ sent[i].via = (IF hasBeacon THEN "beacon" ELSE "fetch")
          /\ sent[i].header = (IF hasBeacon THEN NULL ELSE sent[i].site_id)
    /\ (lastOp \in {"flush", "timer"} /\ pre.qlen > 0 /\ Truthy(pre.siteId)) =>
          Len(sent) = pre.nsent + 1
    /\ lastOp \in {"flush", "timer", "click", "track"} => Len(sent) <= pre.nsent + 1
    /\ HandOffFailed => (script = "running" /\ eventQueue = << >>)

\* the beacon refuses the second batch
C25_Witness ==
    /\ hasBeacon
    /\ lastOp = "flush"
    /\ Len(sent) = 2
    /\ sent[1].ok
    /\ ~sent[2].ok
    /\ sent[2].via = "beacon"


\* C26: activation does not take the page's own error handling away: when the
\* page had put its own handler on window.onerror before init ran, an uncaught
\* error after activation is still given to that handler; the error event is
\* queued without the script failing.
C26_HostHandlerKept ==
    (lastOp = "error" /\ hostOnError /\ pre.initRuns >= 1) =>
        /\ pre.onerror = "host"
        /\ script = "running"


\* C27: every batch handed to the transport carries as site_id the site id that
\* was configured when each of its events was captured: no event captured under
\* one site id is transmitted in a payload labelled with another.
C27_BatchTenant ==
    \A i \in 1..Len(sent) : \A j \in 1..Len(sent[i].events) :
        sent[i].events[j].tenant = sent[i].site_id


\* C28: no event is queued or handed to the transport before activation: in
\* every page lifetime the pageview event of init is the first event accepted,
\* and no batch is handed off before init has run.
C28_PageviewFirst ==
    /\ accepted # << >> => accepted[1].type = "pageview"
    /\ sent # << >> => initRuns >= 1


\* C29: when two queries running together both start a refresh with the same
\* stored refresh token and one refresh succeeds while the other fails, the
\* pair the successful one stored is not cleared: with both refreshes over,
\* the stored tokens are those a successful refresh returned.
C29_RefreshKept ==
    \A c, d \in 1..MaxCalls :
        (/\ calls[c].refresh = "ok"
         /\ calls[d].refresh = "failed"
         /\ calls[c].rt # NoToken
         /\ calls[c].rt = calls[d].rt) =>
            /\ accessToken # NoToken
            /\ refreshToken = accessToken
            /\ \E e \in 1..MaxCalls : calls[e].fresh = accessToken


\* C30: the live events page shows each backend event at most once, however
\* the sessions grow between polls, and never more than 100 events.
C30_ShownOnce ==
    /\ \A i, j \in 1..Len(events) :
          (events[i].sessionId = events[j].sessionId
              /\ events[i].timestamp = events[j].timestamp) => i = j
    /\ Len(events) <= maxShown

=============================================================================
